---------------------------- MODULE Spec2Model ----------------------------
(***************************************************************************)
(* Model of src/soil4.py, a Streamlit script: every user interaction runs  *)
(* the script top to bottom against st.session_state.  One action of the   *)
(* model is one complete script run.                                       *)
(*                                                                         *)
(* Units.  The script computes in floating point; the model computes in    *)
(* exact integers on a decimal grid:                                       *)
(*   ll, pl, fines        tenths of a percent                              *)
(*   d10, d30, d60        thousandths of a millimetre                      *)
(*   depth, gw_depth      tenths of a metre                                *)
(*   gamma                hundredths of a kN/m3                            *)
(*   sigma_v, sigma_v_eff Pa (thousandths of a kPa), exact                 *)
(*   rd                   millionths, exact                                *)
(*   Cn, N1_60            thousandths (floor of the square root)           *)
(*   CSR, CRR             millionths (floor of each quotient)              *)
(*   Z, S, amax, amax_g   exact fractions <<numerator, denominator>>       *)
(***************************************************************************)
EXTENDS Integers, Sequences, FiniteSets, TLC

\* session_state  st.session_state after the last run
\* before         st.session_state when the last run started
\* trigger        what started the last run: start, reset, classify, rerun
\* sample         the widget values the Classify Soil branch read in that run
\* profile        the widget values step 3 read in that run
\* classified     what the Classify Soil branch did
\* step2, step3   what steps 2 and 3 did and displayed
VARIABLES session_state, before, trigger, sample, profile, classified,
          step2, step3

vars == <<session_state, before, trigger, sample, profile, classified,
          step2, step3>>

(***************************************************************************)
(* Arithmetic helpers.                                                     *)
(***************************************************************************)
Max(a, b) == IF a >= b THEN a ELSE b

RECURSIVE GCD(_, _)
GCD(a, b) == IF b = 0 THEN a ELSE GCD(b, a % b)

\* A fraction in lowest terms, denominator positive.
Frac(n, d) == LET g == GCD(n, d) IN <<n \div g, d \div g>>

FracMul(x, y) == Frac(x[1] * y[1], x[2] * y[2])

FracDiv(x, y) == Frac(x[1] * y[2], x[2] * y[1])

\* <<q, r>> with a * b = q * c + r and 0 <= r < c, for a, b >= 0 and c > 0,
\* computed without forming the product a * b.
RECURSIVE MulDivQR(_, _, _)
MulDivQR(a, b, c) ==
    IF b = 0 THEN <<0, 0>>
    ELSE LET h  == MulDivQR(a, b \div 2, c)
             q2 == 2 * h[1] + ((2 * h[2]) \div c)
             r2 == (2 * h[2]) % c
             t  == r2 + (a % c)
         IN  IF b % 2 = 1
             THEN <<q2 + (a \div c) + (t \div c), t % c>>
             ELSE <<q2, r2>>

\* floor(a * b / c) for a, b >= 0 and c > 0; 0 outside that domain
MulDiv(a, b, c) ==
    IF a >= 0 /\ b >= 0 /\ c > 0 THEN MulDivQR(a, b, c)[1] ELSE 0

\* floor(sqrt(x)) by bisection on lo..hi, lo * lo <= x < (hi + 1) * (hi + 1)
RECURSIVE SqrtBetween(_, _, _)
SqrtBetween(x, lo, hi) ==
    IF lo = hi THEN lo
    ELSE LET mid == (lo + hi + 1) \div 2
         IN  IF mid * mid <= x THEN SqrtBetween(x, mid, hi)
                               ELSE SqrtBetween(x, lo, mid - 1)

ISqrt(x) == SqrtBetween(x, 0, 46340)

(***************************************************************************)
(* Step 1: the five labels the classifier stores, as character sequences,  *)
(* and Python's substring test `sub in s`.                                 *)
(***************************************************************************)
LabelCL == <<"C","L"," ","(","C","l","a","y"," ","w","i","t","h"," ",
             "l","o","w"," ","p","l","a","s","t","i","c","i","t","y",")">>

LabelML == <<"M","L"," ","(","S","i","l","t"," ","w","i","t","h"," ",
             "l","o","w"," ","p","l","a","s","t","i","c","i","t","y",")">>

LabelSM == <<"S","M"," ","(","S","i","l","t","y"," ","S","a","n","d"," ",
             "o","r"," ","S","a","n","d","y"," ","S","i","l","t",")">>

LabelSW == <<"S","W"," ","(","W","e","l","l","-","G","r","a","d","e","d",
             " ","S","a","n","d",")">>

LabelSP == <<"S","P"," ","(","P","o","o","r","l","y"," ","g","r","a","d",
             "e","d"," ","S","a","n","d",")">>

Labels == {LabelCL, LabelML, LabelSM, LabelSW, LabelSP}

In(sub, s) ==
    \E i \in 1..(Len(s) - Len(sub) + 1) : SubSeq(s, i, i + Len(sub) - 1) = sub

\* The two-letter code a label starts with.
Code(label) == SubSeq(label, 1, 2)

(***************************************************************************)
(* Step 1: validation and classification of a sample                       *)
(* [ll, pl, fines, d10, d30, d60].                                         *)
(***************************************************************************)
PI(s) == s.ll - s.pl

\* cu = d60 / d10 and cc = d30^2 / (d10 * d60), as fractions; only computed
\* for a sample that passed validation, so no denominator is zero.
Cu(s) == <<s.d60, s.d10>>

Cc(s) == <<s.d30 * s.d30, s.d10 * s.d60>>

\* x > k and x < k for a fraction x with positive denominator, integer k
FracGt(x, k) == x[1] > k * x[2]

FracLt(x, k) == x[1] < k * x[2]

Validate(s) ==
    IF s.ll < s.pl THEN "error_ll"
    ELSE IF s.d10 = 0 \/ s.d30 = 0 \/ s.d60 = 0 THEN "error_d"
    ELSE "ok"

ClassifyMutNonStrict(s) ==
    IF s.fines >= 500
    THEN IF PI(s) >= 70 THEN LabelCL ELSE LabelML
    ELSE IF s.fines >= 120 THEN LabelSM
    ELSE IF ~FracLt(Cu(s), 4) /\ ~FracLt(Cc(s), 1) /\ ~FracGt(Cc(s), 3)
         THEN LabelSW ELSE LabelSP

ClassifySoil(s) ==
    IF s.fines > 500
    THEN IF PI(s) > 70 THEN LabelCL ELSE LabelML
    ELSE IF s.fines > 120 THEN LabelSM
    ELSE IF FracGt(Cu(s), 4) /\ FracGt(Cc(s), 1) /\ FracLt(Cc(s), 3)
         THEN LabelSW ELSE LabelSP

(***************************************************************************)
(* Step 2: seismic zone, zone factor Z, amplification S, amax and amax/g.  *)
(***************************************************************************)
SeismicZone(soil_type) ==
    IF In(<<"C","L">>, soil_type) THEN "Zone III"
    ELSE IF In(<<"M","L">>, soil_type) \/ In(<<"S","M">>, soil_type)
         THEN "Zone IV"
    ELSE "Zone II"

zone_factors ==
    ("Zone II" :> Frac(10, 100)) @@ ("Zone III" :> Frac(16, 100)) @@
    ("Zone IV" :> Frac(24, 100)) @@ ("Zone V" :> Frac(36, 100))

AmplificationMutSM(soil_type) ==
    IF In(<<"C","L">>, soil_type) \/ In(<<"M","L">>, soil_type)
       \/ In(<<"S","M">>, soil_type)
    THEN Frac(15, 10)
    ELSE Frac(10, 10)

Amplification(soil_type) ==
    IF In(<<"C","L">>, soil_type) \/ In(<<"M","L">>, soil_type)
    THEN Frac(15, 10)
    ELSE IF In(<<"S","M">>, soil_type) THEN Frac(12, 10)
    ELSE Frac(10, 10)

\* 9.81
Gravity == Frac(981, 100)

Amax(soil_type) ==
    FracMul(FracMul(zone_factors[SeismicZone(soil_type)],
                    Amplification(soil_type)), Gravity)

AmaxG(soil_type) == FracDiv(Amax(soil_type), Gravity)

(***************************************************************************)
(* Step 3: the liquefaction check on a profile                             *)
(* [depth, gamma, gw_depth, n_value] with the stored amax_g.               *)
(***************************************************************************)
SigmaV(p) == p.gamma * p.depth

SigmaVEffMutNoMax(p) == SigmaV(p) - 981 * (p.depth - p.gw_depth)

SigmaVEff(p) ==
    SigmaV(p) - 981 * (IF p.depth > p.gw_depth THEN p.depth - p.gw_depth ELSE 0)

\* max(1.0 - 0.00765 * depth, 0.5), in millionths
Rd(p) == Max(1000000 - 765 * p.depth, 500000)

\* (100 / sigma_v_eff) ** 0.5 if sigma_v_eff > 0 else 0, in thousandths
Cn(sigma_v_eff) ==
    IF sigma_v_eff > 0
    THEN ISqrt((1000000000 \div sigma_v_eff) * 100)
    ELSE 0

\* 0.65 * amax_g * (sigma_v / sigma_v_eff) * rd, in millionths
CSR(amax_g, sigma_v, sigma_v_eff, rd) ==
    MulDiv(MulDiv(MulDiv(sigma_v, 1000000, sigma_v_eff),
                  13 * amax_g[1], 20 * amax_g[2]),
           rd, 1000000)

\* 34 - N1_60, in thousandths: the divisor of the first term of CRR_7_5
Den34(n1_60) == 34000 - n1_60

\* 1/(34 - N1_60) + N1_60/135 + 50/(10*N1_60 + 45)^2 - 1/200, in millionths
CRR_7_5(n1_60) ==
    LET d  == Den34(n1_60)
        t1 == IF d > 0 THEN 1000000000 \div d ELSE 0 - (1000000000 \div (0 - d))
        t2 == MulDiv(n1_60, 1000, 135)
        x  == 10 * n1_60 + 45000
        t3 == (MulDiv(1000000, 50000, x) * 1000) \div x
    IN  t1 + t2 + t3 - 5000

\* FS = CRR / CSR as the pair <<CRR, CSR>>, CSR > 0: FS < 1
FSLessThanOne(fs) == fs[1] < fs[2]

NoStep3 ==
    [outcome |-> "not_run", warning |-> FALSE, sigma_v |-> 0, sigma_v_eff |-> 0,
     rd |-> 0, Cn |-> 0, N1_60 |-> 0, CSR |-> <<>>, CRR |-> <<>>, FS |-> <<>>]

\* Lines 118..125, which run whatever the stress is.
Step3Head(p) ==
    LET sigma_v_eff == SigmaVEff(p)
        cn == Cn(sigma_v_eff)
    IN  [NoStep3 EXCEPT !.warning = p.gw_depth > p.depth,
                        !.sigma_v = SigmaV(p), !.sigma_v_eff = sigma_v_eff,
                        !.rd = Rd(p), !.Cn = cn, !.N1_60 = p.n_value * cn]

\* Lines 128..146, given what lines 118..125 computed.  A key the script
\* reads and the session lacks raises AttributeError; a zero divisor raises
\* ZeroDivisionError; either ends the run where it is raised.
Step3Results(ss, h) ==
    IF "amax_g" \notin DOMAIN ss
    THEN [h EXCEPT !.outcome = "AttributeError"]
    ELSE IF h.sigma_v_eff = 0
    THEN [h EXCEPT !.outcome = "ZeroDivisionError"]
    ELSE LET csr == CSR(ss["amax_g"], h.sigma_v, h.sigma_v_eff, h.rd)
         IN  IF Den34(h.N1_60) = 0
             THEN [h EXCEPT !.outcome = "ZeroDivisionError", !.CSR = <<csr>>]
             ELSE LET crr == CRR_7_5(h.N1_60)
                  IN  IF csr = 0
                      THEN [h EXCEPT !.outcome = "ZeroDivisionError",
                                     !.CSR = <<csr>>, !.CRR = <<crr>>]
                      ELSE [h EXCEPT
                              !.outcome = IF FSLessThanOne(<<crr, csr>>)
                                          THEN "likely" ELSE "not_likely",
                              !.CSR = <<csr>>, !.CRR = <<crr>>,
                              !.FS = <<crr, csr>>]

Step3MutGuardNonStrict(ss, p) ==
    LET h == Step3Head(p)
    IN  IF h.sigma_v_eff >= 0 THEN Step3Results(ss, h)
        ELSE [h EXCEPT !.outcome = "invalid_stress"]

\* Lines 118..148 for a session that holds step2_complete.
Step3(ss, p) ==
    LET h == Step3Head(p)
    IN  IF h.sigma_v_eff > 0 THEN Step3Results(ss, h)
        ELSE [h EXCEPT !.outcome = "invalid_stress"]

(***************************************************************************)
(* st.session_state: a function from the keys it holds to their values.    *)
(***************************************************************************)
EmptySession == [k \in {} |-> FALSE]

Put(ss, k, v) == (k :> v) @@ ss

Has(ss, k) == k \in DOMAIN ss

\* a flag that is present and true
Flag(ss, k) == Has(ss, k) /\ ss[k]

ResetMutKeepsFlags(ss) ==
    [k \in DOMAIN ss \ {"soil_type", "amax_g"} |-> ss[k]]

ResetMutKeepsResults(ss) ==
    [k \in DOMAIN ss \ {"step1_complete", "step2_complete"} |-> ss[k]]

\* Lines 9..10: every key is deleted.
ResetAll(ss) == [k \in {} |-> ss[k]]

\* Lines 14..17.
InitSessionState(ss) ==
    LET a == IF Has(ss, "step1_complete") THEN ss
             ELSE Put(ss, "step1_complete", FALSE)
    IN  IF Has(a, "step2_complete") THEN a ELSE Put(a, "step2_complete", FALSE)

ClassifyClickMutNoValidation(ss, s) ==
    Put(Put(ss, "soil_type", ClassifySoil(s)), "step1_complete", TRUE)

\* Lines 40..65: the session after a click on Classify Soil.
ClassifyClick(ss, s) ==
    IF Validate(s) = "ok"
    THEN Put(Put(ss, "soil_type", ClassifySoil(s)), "step1_complete", TRUE)
    ELSE ss

NoStep2 == [outcome |-> "not_run", zone |-> "", Z |-> <<0, 1>>, S |-> <<0, 1>>]

\* Lines 70..101: <<session, what step 2 did>>.
Step2(ss) ==
    IF ss["step1_complete"]
    THEN IF ~Has(ss, "soil_type")
         THEN <<ss, [NoStep2 EXCEPT !.outcome = "AttributeError"]>>
         ELSE LET soil_type == ss["soil_type"]
              IN  <<Put(Put(ss, "amax_g", AmaxG(soil_type)),
                        "step2_complete", TRUE),
                    [outcome |-> "ok", zone |-> SeismicZone(soil_type),
                     Z |-> zone_factors[SeismicZone(soil_type)],
                     S |-> Amplification(soil_type)]>>
    ELSE <<ss, NoStep2>>

\* One run of the script from line 13 on: the session it leaves and what each
\* step did.  `clicked` is the Classify Soil button, s and p the widget values.
ScriptRun(ss0, clicked, s, p) ==
    LET ss1 == InitSessionState(ss0)
        ss2 == IF clicked THEN ClassifyClick(ss1, s) ELSE ss1
        r2  == Step2(ss2)
        ran3 == r2[2].outcome # "AttributeError" /\ r2[1]["step2_complete"]
    IN  [ss |-> r2[1],
         classified |-> IF ~clicked THEN "not_clicked"
                        ELSE IF Validate(s) = "ok" THEN "success"
                        ELSE Validate(s),
         step2 |-> r2[2],
         step3 |-> IF ran3 THEN Step3(r2[1], p) ELSE NoStep3]

(***************************************************************************)
(* The widgets: the ranges the form enforces and the values it starts      *)
(* with, and the grids of values the model enters into them.               *)
(***************************************************************************)
DepthMin == 5

DepthMax == 500

GammaMinMutBelowWater == 9 * 100

GammaMin == 1000

GammaMax == 2500

GwMin == 0

GwMax == 500

SptMin == 1

SptMax == 100

DefaultSample ==
    [ll |-> 0, pl |-> 0, fines |-> 0, d10 |-> 1, d30 |-> 1, d60 |-> 1]

DefaultProfile ==
    [depth |-> DepthMin, gamma |-> GammaMin, gw_depth |-> GwMin,
     n_value |-> SptMin]

\* The highest blow count of the dense part of the grid.
TopSpt == 18

\* Samples that vary the plasticity and the fines content, and samples of
\* a clean sand that vary the grading.
PlasticitySamples ==
    [ll : {70, 80}, pl : {0, 75}, fines : {125, 500, 505},
     d10 : {1}, d30 : {1}, d60 : {1}]

GradingSamples ==
    [ll : {80}, pl : {0}, fines : {0, 120},
     d10 : {1}, d30 : {3, 6}, d60 : {4, 8, 9, 12, 20}]

Samples == PlasticitySamples \cup GradingSamples

\* Profiles that vary the stresses, and profiles at an effective stress of
\* 25 kPa (Cn = 2) that vary the blow count.
StressProfiles ==
    [depth : {DepthMin, 20, DepthMax}, gamma : {GammaMin, 1250, GammaMax},
     gw_depth : {GwMin, 20, GwMax}, n_value : {SptMin}]

BlowCountProfiles ==
    [depth : {20}, gamma : {1250}, gw_depth : {GwMin, 20},
     n_value : {SptMax} \cup (15..TopSpt)]

Profiles == StressProfiles \cup BlowCountProfiles

\* The profile on the form while Classify Soil is clicked.
ClickProfiles ==
    {DefaultProfile,
     [depth |-> 20, gamma |-> 1250, gw_depth |-> 20, n_value |-> 10]}

\* Values of the data model that the form's ranges exclude: a grain size of
\* zero, a unit weight at or below that of water, a depth beyond 50 m.
CoreSamples ==
    Samples \cup [ll : {80}, pl : {0}, fines : {0}, d10 : {0, 1},
                  d30 : {0, 3}, d60 : {0, 8}]

CoreProfiles ==
    Profiles \cup [depth : {20, 1000}, gamma : {500, 981},
                   gw_depth : {GwMin, 20}, n_value : {SptMin, 17}]

(***************************************************************************)
(* The state machine: one action per way of starting a run.                *)
(***************************************************************************)
\* The first run of a new session: no button is clicked, the session is empty.
Init ==
    LET r == ScriptRun(EmptySession, FALSE, DefaultSample, DefaultProfile)
    IN  /\ before = EmptySession
        /\ session_state = r.ss
        /\ trigger = "start"
        /\ sample = DefaultSample
        /\ profile = DefaultProfile
        /\ classified = r.classified
        /\ step2 = r.step2
        /\ step3 = r.step3

\* What a run r leaves behind.
Finish(r, s, p) ==
    /\ before' = session_state
    /\ session_state' = r.ss
    /\ sample' = s
    /\ profile' = IF r.step3.outcome = "not_run" THEN DefaultProfile ELSE p
    /\ classified' = r.classified
    /\ step2' = r.step2
    /\ step3' = r.step3

\* Lines 8..11: Reset All Inputs deletes every key and st.rerun() runs the
\* script again at once, with no button clicked.
Reset ==
    /\ trigger' = "reset"
    /\ LET r == ScriptRun(ResetAll(session_state), FALSE, DefaultSample,
                          DefaultProfile)
       IN  Finish(r, DefaultSample, DefaultProfile)

\* A click on Classify Soil with sample s on the form (and p, where step 3
\* is on the page).
Classify(S, P) ==
    \E s \in S, p \in P :
        /\ (~Flag(session_state, "step1_complete") /\ Validate(s) # "ok")
               => p = DefaultProfile
        /\ trigger' = "classify"
        /\ LET r == ScriptRun(session_state, TRUE, s, p)
           IN  Finish(r, s, p)

\* A change of a widget, which runs the script with no button clicked, with
\* profile p on the form where step 3 is on the page.
Rerun(P) ==
    \E p \in P :
        /\ ~Flag(session_state, "step2_complete") => p = DefaultProfile
        /\ trigger' = "rerun"
        /\ LET r == ScriptRun(session_state, FALSE, DefaultSample, p)
           IN  Finish(r, DefaultSample, p)

\* The application, with the values its form accepts.
Next == Reset \/ Classify(Samples, ClickProfiles) \/ Rerun(Profiles)

Spec == Init /\ [][Next]_vars

\* The same three stages called with any value of the data model.
NextCore ==
    Reset \/ Classify(CoreSamples, ClickProfiles) \/ Rerun(CoreProfiles)

SpecCore == Init /\ [][NextCore]_vars

(***************************************************************************)
(* The claims.                                                             *)
(***************************************************************************)
Ran2 == step2.outcome # "not_run"

Ran3 == step3.outcome # "not_run"

Reported == step3.outcome \in {"likely", "not_likely"}

StoredCode == Code(session_state["soil_type"])

\* The session holds the two flags, both false, and nothing else.
Cleared(ss) ==
    /\ DOMAIN ss = {"step1_complete", "step2_complete"}
    /\ ~ss["step1_complete"]
    /\ ~ss["step2_complete"]

C2_ZoneTable ==
    Ran2 =>
      LET row == [zone |-> step2.zone, Z |-> step2.Z, S |-> step2.S,
                  amax_g |-> session_state["amax_g"]]
      IN  /\ step2.outcome = "ok"
          /\ session_state["soil_type"] \in Labels
          /\ StoredCode = <<"C", "L">> =>
               row = [zone |-> "Zone III", Z |-> <<4, 25>>, S |-> <<3, 2>>,
                      amax_g |-> <<6, 25>>]
          /\ StoredCode = <<"M", "L">> =>
               row = [zone |-> "Zone IV", Z |-> <<6, 25>>, S |-> <<3, 2>>,
                      amax_g |-> <<9, 25>>]
          /\ StoredCode = <<"S", "M">> =>
               row = [zone |-> "Zone IV", Z |-> <<6, 25>>, S |-> <<6, 5>>,
                      amax_g |-> <<36, 125>>]
          /\ StoredCode \in {<<"S", "W">>, <<"S", "P">>} =>
               row = [zone |-> "Zone II", Z |-> <<1, 10>>, S |-> <<1, 1>>,
                      amax_g |-> <<1, 10>>]

\* Step 2 ran on the label of a silty sand and stored 0.288.
C2_Witness ==
    /\ step2.outcome = "ok"
    /\ session_state["soil_type"] = LabelSM
    /\ session_state["amax_g"] = <<36, 125>>

\* C3: in every reachable state no run has read soil_type or amax_g before
\* it was written; step 2 ran only with step1_complete set and a soil type
\* stored, step 3 only with step2_complete set and amax_g stored; and
\* step2_complete never holds without step1_complete.
C3_StageGating ==
    /\ step2.outcome # "AttributeError"
    /\ step3.outcome # "AttributeError"
    /\ Ran2 => /\ Flag(session_state, "step1_complete")
               /\ Has(session_state, "soil_type")
    /\ (Ran2 /\ trigger = "rerun") => /\ Flag(before, "step1_complete")
                                      /\ Has(before, "soil_type")
    /\ Ran3 => /\ Ran2
               /\ Flag(session_state, "step2_complete")
               /\ Has(session_state, "amax_g")
    /\ Flag(session_state, "step2_complete")
          => Flag(session_state, "step1_complete")

\* After a reset, a click on Classify Soil with an invalid sample ran
\* neither step 2 nor step 3.
C3_Witness ==
    /\ trigger = "classify"
    /\ classified = "error_ll"
    /\ Cleared(before)
    /\ ~Ran2
    /\ ~Ran3

\* C4: whenever step 3 runs with an effective vertical stress <= 0 it ends
\* in the invalid-stress error and computes no CSR, CRR or factor of safety
\* and gives no verdict; a verdict is given only when the stress is > 0.
C4_InvalidStress ==
    /\ (Ran3 /\ step3.sigma_v_eff <= 0) =>
          /\ step3.outcome = "invalid_stress"
          /\ step3.CSR = <<>>
          /\ step3.CRR = <<>>
          /\ step3.FS = <<>>
    /\ Reported => step3.sigma_v_eff > 0

\* Step 3 ran at an effective stress of exactly zero.
C4_Witness ==
    /\ step3.outcome = "invalid_stress"
    /\ step3.sigma_v_eff = 0
    /\ step3.sigma_v > 0

\* C5: when step 3 runs with an effective stress > 0 and N1_60 = 34 exactly,
\* or CSR = 0, the evaluation ends in a numeric-domain error of its own: no
\* factor of safety is reported and no division by zero escapes the run.
C5_NumericDomainError ==
    (Ran3 /\ step3.sigma_v_eff > 0
          /\ (step3.N1_60 = 34000 \/ step3.CSR = <<0>>))
       => step3.outcome = "numeric_domain_error"

\* C6: a click on Classify Soil with a sample that violates a precondition
\* (ll >= pl; d10, d30, d60 > 0) shows a validation error and leaves the
\* session as it was: soil type, step1_complete, step2_complete and amax_g
\* are those of before the run.
C6_InvalidSampleKeepsSession ==
    (/\ trigger = "classify"
     /\ \/ sample.ll < sample.pl
        \/ sample.d10 <= 0 \/ sample.d30 <= 0 \/ sample.d60 <= 0)
       => /\ classified \in {"error_ll", "error_d"}
          /\ session_state = before

\* An invalid sample was submitted after a classification had succeeded.
C6_Witness ==
    /\ trigger = "classify"
    /\ classified = "error_ll"
    /\ Flag(before, "step2_complete")
    /\ Has(before, "soil_type")

\* C7: a reset, with the rerun it forces, leaves both flags false and no
\* soil type and no amax_g stored, and from such a session steps 2 and 3 do
\* not run until a click on Classify Soil succeeds.
C7_ResetDiscards ==
    /\ trigger = "reset" =>
          Cleared(session_state) /\ ~Ran2 /\ ~Ran3
    /\ (Cleared(before) /\ ~(trigger = "classify" /\ classified = "success"))
          => Cleared(session_state) /\ ~Ran2 /\ ~Ran3

\* A reset was made from a session that held all the results.
C7_Witness ==
    /\ trigger = "reset"
    /\ Flag(before, "step2_complete")
    /\ Has(before, "soil_type")
    /\ Has(before, "amax_g")

\* C8: for depth > 0, unit weight > 0 and water table depth >= 0, total
\* stress is unit weight * depth, effective stress is total stress less
\* 9.81 * max(depth - water table depth, 0), which never exceeds the total
\* and equals it exactly when the water table is at or below the layer.
C8_EffectiveAtMostTotal ==
    (Ran3 /\ profile.depth > 0 /\ profile.gamma > 0 /\ profile.gw_depth >= 0)
       => /\ step3.sigma_v = profile.gamma * profile.depth
          /\ step3.sigma_v_eff =
               step3.sigma_v - 981 * Max(profile.depth - profile.gw_depth, 0)
          /\ step3.sigma_v_eff <= step3.sigma_v
          /\ (step3.sigma_v_eff = step3.sigma_v)
                <=> (profile.gw_depth >= profile.depth)

\* Step 3 ran with the water table below the layer.
C8_Witness ==
    /\ Ran3
    /\ profile.gw_depth > profile.depth
    /\ step3.sigma_v_eff = step3.sigma_v

\* C9: with the values the form accepts (depth 0.5..50, unit weight 10..25,
\* water table depth 0..50) the effective stress is > 0 in every run of
\* step 3 and the invalid-stress error is never shown.
C9_StressPositiveOnForm ==
    /\ Ran3 => step3.sigma_v_eff > 0
    /\ step3.outcome # "invalid_stress"

\* Step 3 ran on the lightest soil, fully submerged, at the least depth.
C9_Witness ==
    /\ Ran3
    /\ profile.gamma = GammaMin
    /\ profile.depth = DepthMin
    /\ profile.gw_depth = GwMin
    /\ step3.sigma_v_eff = 95

\* C10: whenever step 3 gives a verdict, CRR and the factor of safety are
\* > 0, so that "liquefaction likely" never comes from a negative CRR.
C10_ResistancePositive ==
    Reported => /\ step3.CRR[1] > 0
                /\ step3.FS[1] > 0 /\ step3.FS[2] > 0

=============================================================================
